---- MODULE Spec2Model ----
(***************************************************************************)
(* Model of packages/robo/src/cli/compiler/typescript.ts: the two module-  *)
(* level provider handles (ts, transform), preloadTransformers,            *)
(* isTypescriptProject, getTypeScriptCompilerOptions and                   *)
(* buildDeclarationFiles.  The TypeScript compiler, @swc/core, the logger, *)
(* the file system and process.exit are the environment: what they answer  *)
(* is drawn from small sets, what the module does with the answers is      *)
(* translated from the source.                                             *)
(*                                                                         *)
(* Every exported operation is one action.  It leaves in `events` the      *)
(* ordered trace of the calls it made to the environment (provider calls,  *)
(* logger calls, process.exit), in `env` the answers it was given, and in  *)
(* the result variables what it handed back.  Return forgets these call-   *)
(* local observations when control is back at the caller.                  *)
(***************************************************************************)
EXTENDS Integers, Sequences, FiniteSets, TLC

VARIABLES
    IS_BUN_RUNTIME,   \* runtime-utils flag, fixed for the life of the process
    ts,               \* export let ts
    transform,        \* export let transform
    modules,          \* the module loader's cache: specifiers already loaded
    tsWrites,         \* history: number of assignments to ts
    transformWrites,  \* history: number of assignments to transform
    preloads,         \* history: number of completed preloadTransformers calls
    pc,               \* "init" | "idle" | "done" | "exited"
    call,             \* the operation that ran last
    env,              \* what the environment answered during that operation
    events,           \* ordered trace of that operation's environment calls
    threw,            \* that operation ended with an exception / rejection
    program,          \* options handed to ts.createProgram
    returned,         \* option set returned by getTypeScriptCompilerOptions
    classified        \* value returned by isTypescriptProject

vars == <<IS_BUN_RUNTIME, ts, transform, modules, tsWrites, transformWrites,
          preloads, pc, call, env, events, threw, program, returned, classified>>

handles == <<ts, transform, tsWrites, transformWrites>>

(***************************************************************************)
(* Bounds                                                                  *)
(***************************************************************************)
MaxPreloads == 3   \* calls of preloadTransformers, the module's own included
MaxPreEmit == 2    \* diagnostics answered by ts.getPreEmitDiagnostics
MaxEmit == 2       \* diagnostics in emitResult.diagnostics

(***************************************************************************)
(* Values                                                                  *)
(***************************************************************************)
Undefined == "undefined"
TypescriptDefault == "typescript.default"
SwcTransform == "swc.transform"

NoOptions == <<>>

SeqsUpTo(S, n) == UNION {[1..k -> S] : k \in 0..n}

\* JavaScript truthiness of the values an option can hold here.
Truthy(v) == v \notin {Undefined, "false", "null", "0", ""}

\* o.k for an object o: undefined when the key is not there.
Prop(o, k) == IF k \in DOMAIN o THEN o[k] ELSE Undefined

\* { ...a, ...b }
Spread(a, b) == [k \in (DOMAIN a) \cup (DOMAIN b) |-> IF k \in DOMAIN b THEN b[k] ELSE a[k]]

Log(channel, text) == [kind |-> "log", channel |-> channel, text |-> text, status |-> 0]
Exit(status) == [kind |-> "exit", channel |-> "", text |-> "", status |-> status]
Provider(fn) == [kind |-> "provider", channel |-> "", text |-> fn, status |-> 0]

(***************************************************************************)
(* Diagnostics                                                             *)
(***************************************************************************)
NoFile == ""

DiagnosticPool ==
    { [category |-> "Error", file |-> "a.ts", line |-> 4, character |-> 9,
       messageText |-> "Unexpected token"],
      [category |-> "Warning", file |-> NoFile, line |-> 0, character |-> 0,
       messageText |-> "Option is deprecated"],
      [category |-> "Message", file |-> "b.ts", line |-> 0, character |-> 0,
       messageText |-> "Unused import"],
      [category |-> "Suggestion", file |-> NoFile, line |-> 0, character |-> 0,
       messageText |-> "Convert to ES module"] }

formatDiagnostic(diagnostic) ==
    IF diagnostic.file # NoFile
    THEN diagnostic.file \o " (" \o ToString(diagnostic.line + 1) \o ","
         \o ToString(diagnostic.character + 1) \o "): " \o diagnostic.messageText
    ELSE diagnostic.messageText

\* the switch with the break after the Warning case missing
LogDiagnosticFallThrough(diagnostic) ==
    CASE diagnostic.category = "Error" -> <<Log("error", formatDiagnostic(diagnostic))>>
      [] diagnostic.category = "Warning" -> <<Log("warn", formatDiagnostic(diagnostic)),
                                              Log("info", formatDiagnostic(diagnostic))>>
      [] diagnostic.category \in {"Message", "Suggestion"} ->
             <<Log("info", formatDiagnostic(diagnostic))>>
      [] OTHER -> <<>>

\* the switch on diagnostic.category; <<>> when no case matches
LogDiagnostic(diagnostic) ==
    CASE diagnostic.category = "Error" -> <<Log("error", formatDiagnostic(diagnostic))>>
      [] diagnostic.category = "Warning" -> <<Log("warn", formatDiagnostic(diagnostic))>>
      [] diagnostic.category \in {"Message", "Suggestion"} ->
             <<Log("info", formatDiagnostic(diagnostic))>>
      [] OTHER -> <<>>

RECURSIVE ForEachDiagnostic(_)
ForEachDiagnostic(allDiagnostics) ==
    IF allDiagnostics = <<>> THEN <<>>
    ELSE LogDiagnostic(Head(allDiagnostics)) \o ForEachDiagnostic(Tail(allDiagnostics))

(***************************************************************************)
(* buildDeclarationFiles                                                   *)
(***************************************************************************)
DeclarationDefaults ==
    [target |-> "Latest", rootDir |-> "src", outDir |-> ".robo/build",
     declaration |-> "true", emitDeclarationOnly |-> "true",
     moduleResolution |-> "NodeNext", noEmit |-> "false", skipLibCheck |-> "true"]

\* the caller's tsOptions: [given |-> FALSE] is a call without the argument
OverrideChoices ==
    {[given |-> FALSE, options |-> NoOptions]} \cup
    {[given |-> TRUE, options |-> o] :
        o \in {NoOptions, [incremental |-> "true"], [incremental |-> "false"],
               [outDir |-> "dist"], [incremental |-> "true", outDir |-> "dist"],
               [outDir |-> "dist", noEmit |-> "true", strict |-> "true"]}}

\* incremental: false written before the spread instead of after it
DeclarationOptionsSpreadLast(tsOptions) ==
    Spread(Spread(DeclarationDefaults, [incremental |-> "false"]),
           IF tsOptions.given THEN tsOptions.options ELSE NoOptions)

DeclarationOptions(tsOptions) ==
    Spread(Spread(DeclarationDefaults,
                  IF tsOptions.given THEN tsOptions.options ELSE NoOptions),
           [incremental |-> "false"])

AllDiagnostics(preEmit, emitResult) == preEmit \o emitResult.diagnostics

ExitIfSkipped(emitResult) == IF emitResult.emitSkipped THEN <<Exit(1)>> ELSE <<>>

\* the emitSkipped check placed before the diagnostics are displayed
buildDeclarationFilesEventsExitFirst(preEmit, emitResult) ==
    <<Provider("createProgram"), Provider("emit")>>
    \o ExitIfSkipped(emitResult)
    \o ForEachDiagnostic(AllDiagnostics(preEmit, emitResult))

buildDeclarationFilesEvents(preEmit, emitResult) ==
    <<Provider("createProgram"), Provider("emit")>>
    \o ForEachDiagnostic(AllDiagnostics(preEmit, emitResult))
    \o ExitIfSkipped(emitResult)

(***************************************************************************)
(* getTypeScriptCompilerOptions                                            *)
(***************************************************************************)
\* What ts.parseConfigFileTextToJson answers: { config, error }.
ParseChoices ==
    { [config |-> [compilerOptions |-> "json"], error |-> Undefined],
      [config |-> NoOptions, error |-> "Diagnostic 1005"] }

\* What ts.convertCompilerOptionsFromJson answers: { options, errors }.
\* options is a CompilerOptions object; errors the field-level diagnostics.
ConvertChoices ==
    { [options |-> [target |-> "ES2020"], errors |-> <<>>],
      [options |-> [target |-> "ES2020", outDir |-> "/project/dist"], errors |-> <<>>],
      [options |-> NoOptions, errors |-> <<"Diagnostic 6046">>],
      [options |-> [outDir |-> "/project/dist"], errors |-> <<"Diagnostic 5023">>] }

ParseFailed(parsed) == Truthy(parsed.error)

ConvertFailed(converted) == Truthy(Prop(converted.options, "errors"))

\* the parse error is logged but process.exit(1) is not called
getTypeScriptCompilerOptionsEventsNoExit(parsed, converted) ==
    (IF ParseFailed(parsed)
     THEN <<Provider("parseConfigFileTextToJson"),
            Log("error", "Error parsing tsconfig.json:")>>
     ELSE <<Provider("parseConfigFileTextToJson")>>)
    \o <<Provider("convertCompilerOptionsFromJson")>>
    \o (IF ConvertFailed(converted)
        THEN <<Log("error", "Error parsing compiler options from tsconfig.json"),
               Exit(1)>>
        ELSE <<>>)

getTypeScriptCompilerOptionsEvents(parsed, converted) ==
    IF ParseFailed(parsed)
    THEN <<Provider("parseConfigFileTextToJson"),
           Log("error", "Error parsing tsconfig.json:"), Exit(1)>>
    ELSE <<Provider("parseConfigFileTextToJson"),
           Provider("convertCompilerOptionsFromJson")>>
         \o (IF ConvertFailed(converted)
             THEN <<Log("error", "Error parsing compiler options from tsconfig.json"),
                    Exit(1)>>
             ELSE <<>>)

(***************************************************************************)
(* isTypescriptProject                                                     *)
(***************************************************************************)
\* the compiler and transformer checks in the other order
MissingTransformFirst(exists, tsHandle, transformHandle) ==
    (IF ~exists THEN <<"tsconfig.json">> ELSE <<>>)
    \o (IF transformHandle = Undefined THEN <<"@swc/core">> ELSE <<>>)
    \o (IF tsHandle = Undefined THEN <<"typescript">> ELSE <<>>)

Missing(exists, tsHandle, transformHandle) ==
    (IF ~exists THEN <<"tsconfig.json">> ELSE <<>>)
    \o (IF tsHandle = Undefined THEN <<"typescript">> ELSE <<>>)
    \o (IF transformHandle = Undefined THEN <<"@swc/core">> ELSE <<>>)

isTypescriptProjectResult(exists, tsHandle, transformHandle) ==
    LET missing == Missing(exists, tsHandle, transformHandle)
    IN [isTypeScript |-> Len(missing) = 0, missing |-> missing]

(***************************************************************************)
(* preloadTransformers                                                     *)
(***************************************************************************)
\* The specifiers whose dynamic import is started.
ImportsIssued(bun) == IF bun THEN {} ELSE {"typescript", "@swc/core"}

\* Promise.all over the two imports: fulfilled only when both are.
PromiseAll(tsOk, swcOk) == tsOk /\ swcOk

\* a failed acquisition recorded in the handles as an explicit null
PreloadTryMarkAbsent(bun, tsHandle, transformHandle, tsOk, swcOk) ==
    IF bun
    THEN [ts |-> tsHandle, transform |-> transformHandle,
          tsAssigned |-> FALSE, transformAssigned |-> FALSE, exception |-> FALSE]
    ELSE IF PromiseAll(tsOk, swcOk)
         THEN [ts |-> TypescriptDefault, transform |-> SwcTransform,
               tsAssigned |-> TRUE, transformAssigned |-> TRUE, exception |-> FALSE]
         ELSE [ts |-> "null", transform |-> "null",
               tsAssigned |-> TRUE, transformAssigned |-> TRUE, exception |-> TRUE]

\* a handle that is already set is cleared instead of assigned again
PreloadTryToggle(bun, tsHandle, transformHandle, tsOk, swcOk) ==
    IF bun
    THEN [ts |-> tsHandle, transform |-> transformHandle,
          tsAssigned |-> FALSE, transformAssigned |-> FALSE, exception |-> FALSE]
    ELSE IF PromiseAll(tsOk, swcOk)
         THEN [ts |-> IF tsHandle = Undefined THEN TypescriptDefault ELSE Undefined,
               transform |-> IF transformHandle = Undefined THEN SwcTransform ELSE Undefined,
               tsAssigned |-> TRUE, transformAssigned |-> TRUE, exception |-> FALSE]
         ELSE [ts |-> tsHandle, transform |-> transformHandle,
               tsAssigned |-> FALSE, transformAssigned |-> FALSE, exception |-> TRUE]

\* The try block: the handles it leaves and whether it ended by exception.
PreloadTry(bun, tsHandle, transformHandle, tsOk, swcOk) ==
    IF bun
    THEN [ts |-> tsHandle, transform |-> transformHandle,
          tsAssigned |-> FALSE, transformAssigned |-> FALSE, exception |-> FALSE]
    ELSE IF PromiseAll(tsOk, swcOk)
         THEN [ts |-> TypescriptDefault, transform |-> SwcTransform,
               tsAssigned |-> TRUE, transformAssigned |-> TRUE, exception |-> FALSE]
         ELSE [ts |-> tsHandle, transform |-> transformHandle,
               tsAssigned |-> FALSE, transformAssigned |-> FALSE, exception |-> TRUE]

\* the exception thrown again from the catch block
PreloadCatchRethrow(exception) == exception

\* catch { /* Ignore */ }: whether the exception leaves preloadTransformers
PreloadCatch(exception) == FALSE

PreloadEvents(bun) ==
    IF bun THEN <<>> ELSE <<Log("debug", "Preloading Typescript transformers...")>>

(***************************************************************************)
(* State machine                                                           *)
(***************************************************************************)
NoEmitResult == [diagnostics |-> <<>>, emitSkipped |-> FALSE]
NoParse == [config |-> NoOptions, error |-> Undefined]
NoConvert == [options |-> NoOptions, errors |-> <<>>]
NoOverride == [given |-> FALSE, options |-> NoOptions]
NoClassification == [isTypeScript |-> FALSE, missing |-> <<>>]

NoEnv ==
    [exists |-> FALSE, imports |-> {}, tsOk |-> FALSE, swcOk |-> FALSE,
     tsBefore |-> Undefined, transformBefore |-> Undefined,
     parsed |-> NoParse, converted |-> NoConvert,
     tsOptions |-> NoOverride, preEmit |-> <<>>, emitResult |-> NoEmitResult]

Init ==
    /\ IS_BUN_RUNTIME \in BOOLEAN
    /\ ts = Undefined
    /\ transform = Undefined
    /\ modules = {}
    /\ tsWrites = 0
    /\ transformWrites = 0
    /\ preloads = 0
    /\ pc = "init"
    /\ call = "none"
    /\ env = NoEnv
    /\ events = <<>>
    /\ threw = FALSE
    /\ program = NoOptions
    /\ returned = NoOptions
    /\ classified = NoClassification

Finish(outEvents) ==
    pc' = IF \E i \in 1..Len(outEvents) : outEvents[i].kind = "exit"
          THEN "exited" ELSE "done"

\* The body of preloadTransformers; tsOk / swcOk say whether each import
\* is fulfilled.  A specifier already in the loader's cache is fulfilled.
preloadTransformersBody(tsOk, swcOk) ==
    LET r == PreloadTry(IS_BUN_RUNTIME, ts, transform, tsOk, swcOk)
        issued == ImportsIssued(IS_BUN_RUNTIME)
    IN /\ preloads < MaxPreloads
       /\ ("typescript" \in modules => tsOk)
       /\ ("@swc/core" \in modules => swcOk)
       /\ ts' = r.ts
       /\ transform' = r.transform
       /\ tsWrites' = tsWrites + (IF r.tsAssigned THEN 1 ELSE 0)
       /\ transformWrites' = transformWrites + (IF r.transformAssigned THEN 1 ELSE 0)
       /\ modules' = modules \cup {m \in issued : \/ m = "typescript" /\ tsOk
                                                  \/ m = "@swc/core" /\ swcOk}
       /\ preloads' = preloads + 1
       /\ call' = "preload"
       /\ env' = [NoEnv EXCEPT !.imports = issued, !.tsOk = tsOk, !.swcOk = swcOk,
                               !.tsBefore = ts, !.transformBefore = transform]
       /\ events' = PreloadEvents(IS_BUN_RUNTIME)
       /\ threw' = PreloadCatch(r.exception)
       /\ pc' = "done"
       /\ UNCHANGED <<IS_BUN_RUNTIME, program, returned, classified>>

\* line 15: await preloadTransformers() while the module is evaluated
ModuleInit ==
    /\ pc = "init"
    /\ \E tsOk \in BOOLEAN, swcOk \in BOOLEAN : preloadTransformersBody(tsOk, swcOk)

\* a later call of the exported preloadTransformers
preloadTransformers ==
    /\ pc = "idle"
    /\ \E tsOk \in BOOLEAN, swcOk \in BOOLEAN : preloadTransformersBody(tsOk, swcOk)

isTypescriptProject ==
    /\ pc = "idle"
    /\ \E exists \in BOOLEAN :
          /\ classified' = isTypescriptProjectResult(exists, ts, transform)
          /\ env' = [NoEnv EXCEPT !.exists = exists,
                                  !.tsBefore = ts, !.transformBefore = transform]
    /\ call' = "classify"
    /\ events' = <<>>
    /\ threw' = FALSE
    /\ pc' = "done"
    /\ UNCHANGED <<IS_BUN_RUNTIME, ts, transform, modules, tsWrites, transformWrites,
                   preloads, program, returned>>

getTypeScriptCompilerOptions ==
    /\ pc = "idle"
    /\ call' = "resolve"
    /\ \E exists \in BOOLEAN, parsed \in ParseChoices, converted \in ConvertChoices :
          IF ~exists \/ ts = Undefined
          THEN \* readFile rejects, or ts.parseConfigFileTextToJson is a TypeError
               /\ env' = [NoEnv EXCEPT !.exists = exists,
                                       !.tsBefore = ts, !.transformBefore = transform]
               /\ events' = <<>>
               /\ threw' = TRUE
               /\ returned' = NoOptions
               /\ pc' = "done"
          ELSE LET out == getTypeScriptCompilerOptionsEvents(parsed, converted)
                   didConvert == \E i \in 1..Len(out) :
                                    out[i].text = "convertCompilerOptionsFromJson"
               IN /\ env' = [NoEnv EXCEPT !.exists = exists, !.parsed = parsed,
                                 !.converted = IF didConvert THEN converted ELSE NoConvert,
                                 !.tsBefore = ts, !.transformBefore = transform]
                  /\ events' = out
                  /\ threw' = FALSE
                  /\ Finish(out)
                  /\ returned' = IF pc' = "done" THEN converted.options ELSE NoOptions
    /\ UNCHANGED <<IS_BUN_RUNTIME, ts, transform, modules, tsWrites, transformWrites,
                   preloads, program, classified>>

buildDeclarationFiles ==
    /\ pc = "idle"
    /\ call' = "emit"
    /\ \E tsOptions \in OverrideChoices,
          preEmit \in SeqsUpTo(DiagnosticPool, MaxPreEmit),
          diagnostics \in SeqsUpTo(DiagnosticPool, MaxEmit),
          emitSkipped \in BOOLEAN :
          IF ts = Undefined
          THEN \* ts.ScriptTarget on an undefined ts is a TypeError
               /\ env' = [NoEnv EXCEPT !.tsOptions = tsOptions,
                                       !.tsBefore = ts, !.transformBefore = transform]
               /\ events' = <<>>
               /\ threw' = TRUE
               /\ program' = NoOptions
               /\ pc' = "done"
          ELSE LET emitResult == [diagnostics |-> diagnostics, emitSkipped |-> emitSkipped]
                   out == buildDeclarationFilesEvents(preEmit, emitResult)
               IN /\ env' = [NoEnv EXCEPT !.tsOptions = tsOptions, !.preEmit = preEmit,
                                          !.emitResult = emitResult,
                                          !.tsBefore = ts, !.transformBefore = transform]
                  /\ events' = out
                  /\ threw' = FALSE
                  /\ program' = DeclarationOptions(tsOptions)
                  /\ Finish(out)
    /\ UNCHANGED <<IS_BUN_RUNTIME, ts, transform, modules, tsWrites, transformWrites,
                   preloads, returned, classified>>

\* control is back at the caller: the call's observations are forgotten
Return ==
    /\ pc = "done"
    /\ pc' = "idle"
    /\ call' = "none"
    /\ env' = NoEnv
    /\ events' = <<>>
    /\ threw' = FALSE
    /\ program' = NoOptions
    /\ returned' = NoOptions
    /\ classified' = NoClassification
    /\ UNCHANGED <<IS_BUN_RUNTIME, ts, transform, modules, tsWrites, transformWrites,
                   preloads>>

Next ==
    \/ ModuleInit
    \/ preloadTransformers
    \/ isTypescriptProject
    \/ getTypeScriptCompilerOptions
    \/ buildDeclarationFiles
    \/ Return

Spec == Init /\ [][Next]_vars

(***************************************************************************)
(* The readers of the handles, started from every combination of handle    *)
(* states.                                                                 *)
(***************************************************************************)
InitClassify ==
    /\ IS_BUN_RUNTIME \in BOOLEAN
    /\ ts \in {Undefined, TypescriptDefault}
    /\ transform \in {Undefined, SwcTransform}
    /\ modules = {}
    /\ tsWrites = (IF ts = Undefined THEN 0 ELSE 1)
    /\ transformWrites = (IF transform = Undefined THEN 0 ELSE 1)
    /\ preloads = 1
    /\ pc = "idle"
    /\ call = "none"
    /\ env = NoEnv
    /\ events = <<>>
    /\ threw = FALSE
    /\ program = NoOptions
    /\ returned = NoOptions
    /\ classified = NoClassification

NextClassify ==
    \/ isTypescriptProject
    \/ getTypeScriptCompilerOptions
    \/ buildDeclarationFiles
    \/ Return

SpecClassify == InitClassify /\ [][NextClassify]_vars

(***************************************************************************)
(* Properties                                                              *)
(***************************************************************************)
IsLog(e) == e.kind = "log"
IsExit(e) == e.kind = "exit"
Logs(trace) == SelectSeq(trace, IsLog)
Exits(trace) == SelectSeq(trace, IsExit)
Called(trace, fn) == \E i \in 1..Len(trace) : trace[i].kind = "provider" /\ trace[i].text = fn
Range(f) == {f[i] : i \in DOMAIN f}

C2_FailureDoesNotAffectOther ==
    (call = "preload" /\ ~IS_BUN_RUNTIME) =>
        /\ (env.tsOk /\ ~env.swcOk) => ts # Undefined
        /\ (env.swcOk /\ ~env.tsOk) => transform # Undefined

\* C3: isTypescriptProject answers isTypeScript = TRUE iff tsconfig.json exists
\* and both handles are set; missing holds exactly the prerequisites that do
\* not hold, each once, in the order tsconfig.json, typescript, @swc/core; the
\* call changes neither handle.
PrerequisiteRank(name) ==
    CASE name = "tsconfig.json" -> 1
      [] name = "typescript" -> 2
      [] name = "@swc/core" -> 3
      [] OTHER -> 0

C3_ClassifyExact ==
    call = "classify" =>
        LET m == classified.missing
        IN /\ classified.isTypeScript =
                 (env.exists /\ ts # Undefined /\ transform # Undefined)
           /\ ("tsconfig.json" \in Range(m)) = ~env.exists
           /\ ("typescript" \in Range(m)) = (ts = Undefined)
           /\ ("@swc/core" \in Range(m)) = (transform = Undefined)
           /\ \A i \in 1..Len(m) : PrerequisiteRank(m[i]) > 0
           /\ \A i \in 1..Len(m), j \in 1..Len(m) :
                 i < j => PrerequisiteRank(m[i]) < PrerequisiteRank(m[j])
           /\ ~env.exists => (~classified.isTypeScript /\ m[1] = "tsconfig.json")
           /\ ts = env.tsBefore
           /\ transform = env.transformBefore

C3_Witness ==
    /\ call = "classify"
    /\ ~env.exists
    /\ ts = TypescriptDefault
    /\ transform = Undefined
    /\ classified.missing = <<"tsconfig.json", "@swc/core">>
    /\ ~classified.isTypeScript

\* C4: the options handed to ts.createProgram always have incremental = false,
\* also when the caller's tsOptions set incremental to true; every other
\* option the caller sets is handed over with the caller's value.
C4_IncrementalForcedOff ==
    (call = "emit" /\ ~threw) =>
        /\ Called(events, "createProgram")
        /\ "incremental" \in DOMAIN program
        /\ program["incremental"] = "false"
        /\ \A k \in (DOMAIN env.tsOptions.options) \ {"incremental"} :
              k \in DOMAIN program /\ program[k] = env.tsOptions.options[k]

C4_Witness ==
    /\ call = "emit"
    /\ ~threw
    /\ env.tsOptions.given
    /\ env.tsOptions.options = [incremental |-> "true", outDir |-> "dist"]
    /\ program["outDir"] = "dist"

\* C5: when emitResult.emitSkipped is true, process.exit is called exactly
\* once, with a non-zero status, after every pre-emit and emit diagnostic has
\* been logged, and nothing is logged after it.
C5_ExitAfterAllDiagnostics ==
    (call = "emit" /\ ~threw /\ env.emitResult.emitSkipped) =>
        /\ pc = "exited"
        /\ Len(Exits(events)) = 1
        /\ events[Len(events)].kind = "exit"
        /\ events[Len(events)].status # 0
        /\ Len(Logs(SubSeq(events, 1, Len(events) - 1))) =
              Len(env.preEmit) + Len(env.emitResult.diagnostics)

C5_Witness ==
    /\ call = "emit"
    /\ env.emitResult.emitSkipped
    /\ Len(env.preEmit) >= 1
    /\ Len(env.emitResult.diagnostics) >= 1
    /\ pc = "exited"

\* C6: when ts.convertCompilerOptionsFromJson reports field-level errors,
\* getTypeScriptCompilerOptions logs an error, terminates the process with a
\* non-zero status and returns no option set.
C6_ConversionErrorsFatal ==
    (call = "resolve" /\ ~threw /\ Called(events, "convertCompilerOptionsFromJson")
        /\ env.converted.errors # <<>>) =>
        /\ pc = "exited"
        /\ \E i \in 1..Len(events) : events[i].kind = "log" /\ events[i].channel = "error"
        /\ \E i \in 1..Len(events) : events[i].kind = "exit" /\ events[i].status # 0
        /\ returned = NoOptions

\* C7: when ts.parseConfigFileTextToJson reports an error, it is logged on the
\* error channel and then process.exit is called with a non-zero status, each
\* exactly once and in that order; the options are not converted and no
\* option set is returned.
C7_ParseErrorFatal ==
    (call = "resolve" /\ ~threw /\ env.parsed.error # Undefined) =>
        /\ pc = "exited"
        /\ Len(Logs(events)) = 1
        /\ Len(Exits(events)) = 1
        /\ Len(events) >= 2
        /\ events[Len(events) - 1].kind = "log"
        /\ events[Len(events) - 1].channel = "error"
        /\ events[Len(events)].kind = "exit"
        /\ events[Len(events)].status # 0
        /\ ~Called(events, "convertCompilerOptionsFromJson")
        /\ returned = NoOptions

C7_Witness ==
    /\ call = "resolve"
    /\ ~threw
    /\ env.parsed.error # Undefined
    /\ pc = "exited"
    /\ Len(events) = 3

\* C8: the log calls of buildDeclarationFiles are, in order, one per pre-emit
\* diagnostic followed by one per emit diagnostic, each on the channel of its
\* category: Error on error, Warning on warn, Message and Suggestion on info.
ExpectedChannel(category) ==
    CASE category = "Error" -> "error"
      [] category = "Warning" -> "warn"
      [] category = "Message" -> "info"
      [] category = "Suggestion" -> "info"

C8_LogOrderAndChannels ==
    (call = "emit" /\ ~threw) =>
        LET all == env.preEmit \o env.emitResult.diagnostics
            logs == Logs(events)
        IN /\ Len(logs) = Len(all)
           /\ \A i \in 1..Len(all) :
                 /\ logs[i].channel = ExpectedChannel(all[i].category)
                 /\ logs[i].text = formatDiagnostic(all[i])

C8_Witness ==
    /\ call = "emit"
    /\ ~threw
    /\ Len(env.preEmit) = 2
    /\ Len(env.emitResult.diagnostics) = 2
    /\ {d.category : d \in Range(env.preEmit)} = {"Error", "Warning"}
    /\ {d.category : d \in Range(env.emitResult.diagnostics)} = {"Message", "Suggestion"}
    /\ Len(Logs(events)) = 4

\* C9 as stated: each handle is written at most once, once set it never
\* becomes unset, and every operation other than preloadTransformers leaves
\* both handles unchanged.
C9_WrittenAtMostOnce ==
    [][/\ tsWrites' <= 1
       /\ transformWrites' <= 1
       /\ ts # Undefined => ts' # Undefined
       /\ transform # Undefined => transform' # Undefined
       /\ call' # "preload" => UNCHANGED handles]_vars

\* C9 as amended: a handle that is set keeps its value for ever (a later
\* preloadTransformers may assign it again, with the same provider), and
\* every operation other than preloadTransformers leaves both handles
\* unchanged.
C9_SetHandleIsStable ==
    [][/\ ts # Undefined => ts' = ts
       /\ transform # Undefined => transform' = transform
       /\ call' # "preload" => UNCHANGED handles]_vars

C9_Witness ==
    /\ call = "preload"
    /\ tsWrites = 2
    /\ transformWrites = 2
    /\ ts = TypescriptDefault
    /\ transform = SwcTransform

\* C10 as stated: after a preloadTransformers whose acquisition of a provider
\* failed or was skipped, that provider's handle differs from its state at
\* process start.
C10_AbsentDistinguishable ==
    call = "preload" =>
        /\ (IS_BUN_RUNTIME \/ ~env.tsOk) => ts # Undefined
        /\ (IS_BUN_RUNTIME \/ ~env.swcOk) => transform # Undefined

\* C10 as amended: after a preloadTransformers whose acquisition of a provider
\* failed or was skipped, that provider's handle is undefined, the very state
\* it has at process start: the two are not distinguishable.
C10_AbsentIsUndefined ==
    call = "preload" =>
        /\ (IS_BUN_RUNTIME \/ ~env.tsOk) => ts = Undefined
        /\ (IS_BUN_RUNTIME \/ ~env.swcOk) => transform = Undefined

C10_Witness ==
    /\ call = "preload"
    /\ preloads = 1
    /\ ~IS_BUN_RUNTIME
    /\ ~env.tsOk
    /\ ts = Undefined

====
